---- MODULE Spec2Model ----
(***************************************************************************)
(* Invoice data extraction (extract_amazon.py): the text normaliser, the   *)
(* value cleaners, the vendor detector, the two per-vendor rule sets and   *)
(* the batch driver process_invoices.                                      *)
(*                                                                         *)
(* A Python str is a sequence of characters, a character a one-element     *)
(* string.  None is the value None.  A regular expression is a sequence of *)
(* atoms, matched by backtracking in the priority order of Python's re.    *)
(***************************************************************************)
EXTENDS Integers, Sequences, FiniteSets, TLC

VARIABLES
    \* a call of one of the static helpers
    fn,                 \* the function called
    arg,                \* its arguments
    ret,                \* its return value, NotCalled before it returns
    \* a call of extract_amazon_invoice or extract_flipkart_invoice
    ex_fn,              \* the function called
    ex_text,            \* text
    ex_filename,        \* filename
    ex_pc,              \* "call", "try", "return"
    ex_stmt,            \* the number of the next statement of the try block
    ex_data,            \* data
    ex_error,           \* the statement that raised, 0 if none
    \* a run of process_invoices
    pc,                 \* "start", "loop", "save", "done"
    listing,            \* os.listdir(INPUT_FOLDER)
    files,              \* files
    idx,                \* the position in files of the file handled next
    all_invoices,       \* all_invoices
    processed_files,    \* processed_files
    failed_files,       \* failed_files
    outputs,            \* the files written to OUTPUT_FOLDER, each its rows
    exit_code           \* "running", then the exit status

pureVars == <<fn, arg, ret>>
exVars == <<ex_fn, ex_text, ex_filename, ex_pc, ex_stmt, ex_data, ex_error>>
runVars == <<pc, listing, files, idx, all_invoices, processed_files, failed_files,
             outputs, exit_code>>
vars == <<pureVars, exVars, runVars>>

\* None, a value not yet there, NaN and a raised exception are no str: each is a
\* one-element sequence whose element is no character
None == <<"None">>
NotCalled == <<"NotCalled">>
NaN == <<"NaN">>
Raises == <<"raises">>

(***************************************************************************)
(* Characters                                                              *)
(***************************************************************************)
Rupee == "₹"
UpperCase == <<"A","B","C","D","E","F","G","H","I","J","K","L","M",
               "N","O","P","Q","R","S","T","U","V","W","X","Y","Z">>
LowerCase == <<"a","b","c","d","e","f","g","h","i","j","k","l","m",
               "n","o","p","q","r","s","t","u","v","w","x","y","z">>
Letters == {UpperCase[i] : i \in DOMAIN UpperCase} \cup {LowerCase[i] : i \in DOMAIN LowerCase}
UpperLetters == {UpperCase[i] : i \in DOMAIN UpperCase}
LowerLetters == {LowerCase[i] : i \in DOMAIN LowerCase}
Digits == {"0","1","2","3","4","5","6","7","8","9"}
\* \s of re: space, tab, line feed, carriage return, form feed
WS == {" ", "\t", "\n", "\r", "\f"}

\* str.lower() on one character, and str.upper()
LowerChar(c) ==
    IF c \in UpperLetters
    THEN LowerCase[CHOOSE i \in DOMAIN UpperCase : UpperCase[i] = c]
    ELSE c
UpperChar(c) ==
    IF c \in LowerLetters
    THEN UpperCase[CHOOSE i \in DOMAIN LowerCase : LowerCase[i] = c]
    ELSE c

\* str.lower()
Lower(s) == [i \in 1..Len(s) |-> LowerChar(s[i])]

\* Body with its parameter bound to v: a local variable of the code
Bind(v, Body(_)) == Body(v)

Min(S) == CHOOSE x \in S : \A y \in S : x <= y
Max(S) == CHOOSE x \in S : \A y \in S : x >= y

\* s[a:b] for 0 <= a, with b clipped to len(s)
Slice(s, a, b) == SubSeq(s, a + 1, IF b > Len(s) THEN Len(s) ELSE b)

\* sub in s
Contains(sub, s) ==
    \E i \in 0..(Len(s) - Len(sub)) : SubSeq(s, i + 1, i + Len(sub)) = sub

\* s.endswith(suffix)
EndsWith(s, suffix) ==
    /\ Len(s) >= Len(suffix)
    /\ SubSeq(s, Len(s) - Len(suffix) + 1, Len(s)) = suffix

\* str.strip()
Strip(s) ==
    LET keep == {i \in DOMAIN s : s[i] \notin WS} IN
    IF keep = {} THEN <<>> ELSE SubSeq(s, Min(keep), Max(keep))

\* the indices of s, in order, that satisfy Keep
Indices(s, Keep(_)) == SelectSeq([i \in 1..Len(s) |-> i], Keep)

(***************************************************************************)
(* Regular expressions (module re)                                         *)
(***************************************************************************)
Atom(t) == [t |-> t, cs |-> {}, neg |-> FALSE, min |-> 1, max |-> 1,
            unb |-> FALSE, lazy |-> FALSE, g |-> 0, alts |-> <<>>, str |-> <<>>]
\* [abc], \s, \d
In(cs) == [Atom("set") EXCEPT !.cs = cs]
\* [^abc]; NotIn({}) is . under DOTALL, NotIn({"\n"}) is . without it
NotIn(cs) == [Atom("set") EXCEPT !.cs = cs, !.neg = TRUE]
\* a*, a+, a?, a{n}, a{n,}, a*?, a+?
Star(a) == [a EXCEPT !.min = 0, !.unb = TRUE]
Plus(a) == [a EXCEPT !.min = 1, !.unb = TRUE]
Opt(a) == [a EXCEPT !.min = 0, !.max = 1]
Times(a, n) == [a EXCEPT !.min = n, !.max = n]
AtLeast(a, n) == [a EXCEPT !.min = n, !.unb = TRUE]
Lazy(a) == [a EXCEPT !.lazy = TRUE]
\* ( and ) of capturing group g
Open(g) == [Atom("open") EXCEPT !.g = g]
Close(g) == [Atom("close") EXCEPT !.g = g]
\* (?:p1|p2|...)
Alt(alts) == [Atom("alt") EXCEPT !.alts = alts]
\* (?=p1|p2|...)
Look(alts) == [Atom("look") EXCEPT !.alts = alts]
\* $ and ^ without MULTILINE
Eos == Atom("eos")
Bos == Atom("bos")
\* a literal string, as a pattern
Lit(str) == <<[Atom("lit") EXCEPT !.str = str]>>

NoCaps == <<<<0, 0>>, <<0, 0>>, <<0, 0>>>>
Fail == [ok |-> FALSE, start |-> 0, end |-> 0, caps |-> NoCaps]

\* whether character c is character x; ci is re.IGNORECASE
CharEq(c, x, ci) == c = x \/ (ci /\ LowerChar(c) = LowerChar(x))

\* whether character c is in the class of atom a
CharOK(a, c, ci) ==
    LET hit == \/ c \in a.cs
               \/ ci /\ (LowerChar(c) \in a.cs \/ UpperChar(c) \in a.cs)
    IN  IF a.neg THEN ~hit ELSE hit

\* whether the literal of atom a is at position pos of s
LitOK(a, s, pos, ci) ==
    /\ pos + Len(a.str) <= Len(s)
    /\ \A i \in 1..Len(a.str) : CharEq(s[pos + i], a.str[i], ci)

\* how many characters from position pos on are in the class of a, up to its max
RunLen(a, s, pos, ci) ==
    LET limit == IF a.unb \/ Len(s) - pos < a.max THEN Len(s) - pos ELSE a.max
        stops == {n \in 0..(limit - 1) : ~CharOK(a, s[pos + n + 1], ci)}
    IN  IF stops = {} THEN limit ELSE Min(stops)

\* of the attempts that matched, each with its count or start n, the result
\* r of the one re prefers: the smallest n (lazy, leftmost) or the largest
Pick(lazy, good) ==
    IF good = {} THEN Fail
    ELSE (CHOOSE x \in good :
             \A y \in good : IF lazy THEN x.n <= y.n ELSE x.n >= y.n).r

RECURSIVE Match(_, _, _, _, _, _)
RECURSIVE TryAlt(_, _, _, _, _, _, _)

\* the first match, in re's priority order, of atoms k.. of p at position pos of s
Match(p, k, s, pos, caps, ci) ==
    IF k > Len(p) THEN [ok |-> TRUE, start |-> 0, end |-> pos, caps |-> caps]
    ELSE LET a == p[k] IN
      CASE a.t = "lit" ->
             IF LitOK(a, s, pos, ci) THEN Match(p, k + 1, s, pos + Len(a.str), caps, ci)
             ELSE Fail
        [] a.t = "set" ->
             \* greedy: the largest count with which the rest matches; lazy: the smallest
             Pick(a.lazy,
                  {x \in {[n |-> n, r |-> Match(p, k + 1, s, pos + n, caps, ci)]
                             : n \in a.min..RunLen(a, s, pos, ci)} : x.r.ok})
        [] a.t = "open" ->
             Match(p, k + 1, s, pos, [caps EXCEPT ![a.g] = <<pos, pos>>], ci)
        [] a.t = "close" ->
             Match(p, k + 1, s, pos, [caps EXCEPT ![a.g] = <<caps[a.g][1], pos>>], ci)
        [] a.t = "alt" -> TryAlt(p, k, s, pos, caps, ci, 1)
        [] a.t = "look" ->
             IF \E j \in DOMAIN a.alts : Match(a.alts[j], 1, s, pos, caps, ci).ok
             THEN Match(p, k + 1, s, pos, caps, ci)
             ELSE Fail
        [] a.t = "eos" ->
             IF pos = Len(s) \/ (pos = Len(s) - 1 /\ s[Len(s)] = "\n")
             THEN Match(p, k + 1, s, pos, caps, ci)
             ELSE Fail
        [] a.t = "bos" ->
             IF pos = 0 THEN Match(p, k + 1, s, pos, caps, ci) ELSE Fail

\* alternative j of atom k followed by the rest, then the next alternative
TryAlt(p, k, s, pos, caps, ci, j) ==
    IF j > Len(p[k].alts) THEN Fail
    ELSE Bind(Match(p[k].alts[j] \o SubSeq(p, k + 1, Len(p)), 1, s, pos, caps, ci),
              LAMBDA r : IF r.ok THEN r ELSE TryAlt(p, k, s, pos, caps, ci, j + 1))

\* re.search scanning from position from: the leftmost match
SearchFrom(p, s, ci, from) ==
    Pick(TRUE,
         {x \in {[n |-> n, r |-> [Match(p, 1, s, n, NoCaps, ci) EXCEPT !.start = n]]
                    : n \in from..Len(s)} : x.r.ok})

\* re.search(p, s) and re.search(p, s, re.IGNORECASE)
Search(p, s, ci) == SearchFrom(p, s, ci, 0)

\* match.group(g)
Group(s, m, g) == SubSeq(s, m.caps[g][1] + 1, m.caps[g][2])

\* re.sub(p, repl, s) for a pattern that matches no empty string: every
\* non-overlapping match replaced, left to right
RECURSIVE SubFrom(_, _, _, _, _)
SubFrom(p, repl, s, ci, from) ==
    Bind(SearchFrom(p, s, ci, from), LAMBDA m :
    IF ~m.ok THEN SubSeq(s, from + 1, Len(s))
    ELSE SubSeq(s, from + 1, m.start) \o repl \o SubFrom(p, repl, s, ci, m.end))

Sub(p, repl, s, ci) == SubFrom(p, repl, s, ci, 0)

\* re.sub(r'[class]', '', s): the characters of the class dropped
SubClassEmpty(a, s) ==
    LET Keep(c) == ~CharOK(a, c, FALSE) IN SelectSeq(s, Keep)

\* re.sub(r'[class]+', c, s): every maximal run of the class replaced by character c
SubRuns(a, c, s) ==
    LET Keep(i) == ~CharOK(a, s[i], FALSE) \/ i = 1 \/ ~CharOK(a, s[i - 1], FALSE)
        kept == Indices(s, Keep)
    IN  [k \in 1..Len(kept) |-> IF CharOK(a, s[kept[k]], FALSE) THEN c ELSE s[kept[k]]]

\* s.replace(old, new) for characters old and new
ReplaceChar(s, old, new) == [i \in 1..Len(s) |-> IF s[i] = old THEN new ELSE s[i]]

\* s.replace('\r\n', '\n'): the carriage return of every pair dropped
ReplaceCRLF(s) ==
    LET Keep(i) == ~(s[i] = "\r" /\ i < Len(s) /\ s[i + 1] = "\n")
        kept == Indices(s, Keep)
    IN  [k \in 1..Len(kept) |-> s[kept[k]]]

(***************************************************************************)
(* Variants of the definitions below, each with one plausible bug; the      *)
(* properties at the end of the module tell each from the code             *)
(***************************************************************************)
\* clean_text that forgets line 34, the strip()
clean_text_unstripped(text) ==
    IF text = None \/ text = <<>> THEN <<>>
    ELSE ReplaceChar(ReplaceCRLF(SubRuns(In(WS), " ", text)), "\r", "\n")

\* the f-string of line 67 used for the ISO pattern too: no reordering
date_format_unordered(s, m) ==
    Group(s, m, 1) \o <<"/">> \o Group(s, m, 2) \o <<"/">> \o Group(s, m, 3)

\* detect_invoice_type that looks at the content before the file name
detect_invoice_type_content_first(text, filename) ==
    IF Contains(<<"a","m","a","z","o","n">>, Lower(text)) THEN <<"a","m","a","z","o","n">>
    ELSE IF Contains(<<"f","l","i","p","k","a","r","t">>, Lower(text))
         THEN <<"f","l","i","p","k","a","r","t">>
    ELSE IF Contains(<<"a","m","a","z","o","n">>, Lower(filename))
         THEN <<"a","m","a","z","o","n">>
    ELSE IF Contains(<<"f","l","i","p","k","a","r","t">>, Lower(filename))
         THEN <<"f","l","i","p","k","a","r","t">>
    ELSE <<"u","n","k","n","o","w","n">>

(***************************************************************************)
(* InvoiceProcessor.clean_text                                             *)
(***************************************************************************)
clean_text(text) ==
    IF text = None \/ text = <<>> THEN <<>>
    ELSE LET t1 == SubRuns(In(WS), " ", text)
             t2 == ReplaceChar(ReplaceCRLF(t1), "\r", "\n")
         IN  Strip(t2)

(***************************************************************************)
(* InvoiceProcessor.clean_currency                                         *)
(***************************************************************************)
clean_currency(amount_str) ==
    IF amount_str = None \/ amount_str = <<>> THEN <<"0", ".", "0", "0">>
    ELSE LET c1 == SubClassEmpty(NotIn(Digits \cup {".", ","}), amount_str)
             cleaned == SubClassEmpty(In({","}), c1)
         IN  IF cleaned # <<>> THEN cleaned ELSE <<"0", ".", "0", "0">>

(***************************************************************************)
(* InvoiceProcessor.standardize_date                                       *)
(***************************************************************************)
NA == <<"N", "/", "A">>

D2 == Times(In(Digits), 2)
D4 == Times(In(Digits), 4)
DatePat(a, sep, b, c) ==
    <<Open(1), a, Close(1), In({sep}), Open(2), b, Close(2), In({sep}), Open(3), c, Close(3)>>
date_patterns ==
    << DatePat(D2, ".", D2, D4),
       DatePat(D2, "/", D2, D4),
       DatePat(D2, "-", D2, D4),
       DatePat(D4, "-", D2, D2) >>

\* the f-strings of lines 64-67
date_format(s, m) ==
    IF Len(Group(s, m, 1)) = 4
    THEN Group(s, m, 3) \o <<"/">> \o Group(s, m, 2) \o <<"/">> \o Group(s, m, 1)
    ELSE Group(s, m, 1) \o <<"/">> \o Group(s, m, 2) \o <<"/">> \o Group(s, m, 3)

RECURSIVE date_loop(_, _)
date_loop(date_str, i) ==
    IF i > Len(date_patterns) THEN date_str
    ELSE Bind(Search(date_patterns[i], date_str, FALSE), LAMBDA m :
         IF m.ok THEN date_format(date_str, m) ELSE date_loop(date_str, i + 1))

standardize_date(date_str) ==
    IF date_str = None \/ date_str = <<>> \/ date_str = NA THEN NA
    ELSE date_loop(date_str, 1)

(***************************************************************************)
(* InvoiceProcessor.detect_invoice_type                                    *)
(***************************************************************************)
kw_amazon == <<"a","m","a","z","o","n">>
kw_flipkart == <<"f","l","i","p","k","a","r","t">>
kw_asspl == <<"A","S","S","P","L","-","A","m","a","z","o","n">>

type_amazon == <<"a","m","a","z","o","n">>
type_flipkart == <<"f","l","i","p","k","a","r","t">>
type_unknown == <<"u","n","k","n","o","w","n">>

detect_invoice_type(text, filename) ==
    LET text_lower == Lower(text)
        filename_lower == Lower(filename)
    IN  IF Contains(kw_amazon, filename_lower) THEN type_amazon
        ELSE IF Contains(kw_flipkart, filename_lower) THEN type_flipkart
        ELSE IF Contains(kw_amazon, text_lower) \/ Contains(kw_asspl, text) THEN type_amazon
        ELSE IF Contains(kw_flipkart, text_lower) THEN type_flipkart
        ELSE type_unknown

(***************************************************************************)
(* The record of an invoice: a dict from the 21 column names to strings    *)
(***************************************************************************)
Fields == {"File Name", "Invoice Source", "Order Number", "Invoice Number",
           "Order Date", "Invoice Date", "Product Name", "HSN Code",
           "Quantity", "Unit Price", "Net Amount", "Tax Rate", "Tax Amount",
           "Total Amount", "Shipping Charges", "Grand Total", "Payment Mode",
           "Seller Name", "Seller GST", "Billing Address", "Shipping Address"}
ZeroFields == {"Unit Price", "Net Amount", "Tax Amount", "Total Amount",
               "Shipping Charges", "Grand Total"}
Zero == <<"0", ".", "0", "0">>
str_Amazon == <<"A","m","a","z","o","n">>
str_Flipkart == <<"F","l","i","p","k","a","r","t">>
str_Unknown == <<"U","n","k","n","o","w","n">>

\* the dict literal of lines 74-96 and 247-269
default_record(filename, source) ==
    [f \in Fields |->
        CASE f = "File Name" -> filename
          [] f = "Invoice Source" -> source
          [] f = "Quantity" -> <<"1">>
          [] f \in ZeroFields -> Zero
          [] OTHER -> NA]

\* data[key] = value
Put(data, key, value) ==
    [f \in DOMAIN data \cup {key} |-> IF f = key THEN value ELSE data[f]]

\* for pattern in patterns: match = re.search(pattern, text, flags); if match: ... break
RECURSIVE FirstMatch(_, _, _, _)
FirstMatch(patterns, text, ci, i) ==
    IF i > Len(patterns) THEN Fail
    ELSE Bind(Search(patterns[i], text, ci), LAMBDA m :
         IF m.ok THEN m ELSE FirstMatch(patterns, text, ci, i + 1))

\* str.split(sep) for a one-character sep
Split(s, sep) ==
    LET IsSep(i) == s[i] = sep
        cuts == <<0>> \o Indices(s, IsSep) \o <<Len(s) + 1>>
    IN  [k \in 1..(Len(cuts) - 1) |-> SubSeq(s, cuts[k] + 1, cuts[k + 1] - 1)]

\* sep.join(parts)
RECURSIVE Join(_, _)
Join(parts, sep) ==
    IF parts = <<>> THEN <<>>
    ELSE IF Len(parts) = 1 THEN parts[1]
    ELSE parts[1] \o sep \o Join(Tail(parts), sep)

(***************************************************************************)
(* InvoiceProcessor.extract_amazon_invoice: the patterns                   *)
(***************************************************************************)
\* line 101: Order\s*Number[:\s]*([0-9\-]+)
order_pattern_1 ==
    Lit(<<"O","r","d","e","r">>) \o <<Star(In(WS))>> \o Lit(<<"N","u","m","b","e","r">>)
    \o <<Star(In(WS \cup {":"})), Open(1), Plus(In(Digits \cup {"-"})), Close(1)>>
\* line 102: Order\s*ID[:\s]*([0-9\-]+)
order_pattern_2 ==
    Lit(<<"O","r","d","e","r">>) \o <<Star(In(WS))>> \o Lit(<<"I","D">>)
    \o <<Star(In(WS \cup {":"})), Open(1), Plus(In(Digits \cup {"-"})), Close(1)>>
\* line 103: Amazon\s*Order[:\s]*([0-9\-]+)
order_pattern_3 ==
    Lit(<<"A","m","a","z","o","n">>) \o <<Star(In(WS))>> \o Lit(<<"O","r","d","e","r">>)
    \o <<Star(In(WS \cup {":"})), Open(1), Plus(In(Digits \cup {"-"})), Close(1)>>
\* line 112: Invoice\s*Number[:\s]*([A-Z0-9\-]+)
invoice_number_pattern ==
    Lit(<<"I","n","v","o","i","c","e">>) \o <<Star(In(WS))>>
    \o Lit(<<"N","u","m","b","e","r">>)
    \o <<Star(In(WS \cup {":"})), Open(1), Plus(In(UpperLetters \cup Digits \cup {"-"})),
         Close(1)>>
\* line 117: Order\s*Date[:\s]*([0-9./\-]+)
order_date_pattern ==
    Lit(<<"O","r","d","e","r">>) \o <<Star(In(WS))>> \o Lit(<<"D","a","t","e">>)
    \o <<Star(In(WS \cup {":"})), Open(1), Plus(In(Digits \cup {".", "/", "-"})), Close(1)>>
\* line 121: Invoice\s*Date[:\s]*([0-9./\-]+)
invoice_date_pattern ==
    Lit(<<"I","n","v","o","i","c","e">>) \o <<Star(In(WS))>> \o Lit(<<"D","a","t","e">>)
    \o <<Star(In(WS \cup {":"})), Open(1), Plus(In(Digits \cup {".", "/", "-"})), Close(1)>>
\* line 128: ^\s*1\s+
item_line_pattern ==
    <<Bos, Star(In(WS))>> \o Lit(<<"1">>) \o <<Plus(In(WS))>>
\* line 141: ^(HSN|₹|\d+%|IGST|Shipping)
section_header_pattern ==
    <<Bos, Open(1), Alt(<<Lit(<<"H","S","N">>), Lit(<<Rupee>>),
         <<Plus(In(Digits))>> \o Lit(<<"%">>), Lit(<<"I","G","S","T">>),
         Lit(<<"S","h","i","p","p","i","n","g">>)>>), Close(1)>>
\* line 151: ₹[\d,.]+ \d+ ₹[\d,.]+.*$
price_tail_pattern ==
    Lit(<<Rupee>>) \o <<Plus(In(Digits \cup {",", "."}))>> \o Lit(<<" ">>)
    \o <<Plus(In(Digits))>> \o Lit(<<" ",Rupee>>)
    \o <<Plus(In(Digits \cup {",", "."})), Star(NotIn({"\n"})), Eos>>
\* line 156: HSN[:\s]*([0-9]+)
hsn_pattern ==
    Lit(<<"H","S","N">>)
    \o <<Star(In(WS \cup {":"})), Open(1), Plus(In(Digits)), Close(1)>>
\* line 162: ₹([\d,]+\.?\d*)\s+1\s+₹
unit_price_pattern ==
    Lit(<<Rupee>>)
    \o <<Open(1), Plus(In(Digits \cup {","})), Opt(In({"."})), Star(In(Digits)), Close(1),
         Plus(In(WS))>>
    \o Lit(<<"1">>) \o <<Plus(In(WS))>> \o Lit(<<Rupee>>)
\* line 167: ₹[\d,]+\.?\d*\s+(\d+)\s+₹
qty_pattern ==
    Lit(<<Rupee>>)
    \o <<Plus(In(Digits \cup {","})), Opt(In({"."})), Star(In(Digits)), Plus(In(WS)),
         Open(1), Plus(In(Digits)), Close(1), Plus(In(WS))>>
    \o Lit(<<Rupee>>)
\* line 172: ₹[\d,]+\.?\d*\s+\d+\s+₹([\d,]+\.?\d*)
net_amount_pattern ==
    Lit(<<Rupee>>)
    \o <<Plus(In(Digits \cup {","})), Opt(In({"."})), Star(In(Digits)), Plus(In(WS)),
         Plus(In(Digits)), Plus(In(WS))>>
    \o Lit(<<Rupee>>)
    \o <<Open(1), Plus(In(Digits \cup {","})), Opt(In({"."})), Star(In(Digits)), Close(1)>>
\* line 177: (\d+)%\s+IGST
tax_rate_pattern ==
    <<Open(1), Plus(In(Digits)), Close(1)>> \o Lit(<<"%">>) \o <<Plus(In(WS))>>
    \o Lit(<<"I","G","S","T">>)
\* line 181: IGST\s+₹([\d,]+\.?\d*)
tax_amount_pattern ==
    Lit(<<"I","G","S","T">>) \o <<Plus(In(WS))>> \o Lit(<<Rupee>>)
    \o <<Open(1), Plus(In(Digits \cup {","})), Opt(In({"."})), Star(In(Digits)), Close(1)>>
\* line 186: IGST\s+₹[\d,]+\.?\d*\s+₹([\d,]+\.?\d*)
total_amount_pattern ==
    Lit(<<"I","G","S","T">>) \o <<Plus(In(WS))>> \o Lit(<<Rupee>>)
    \o <<Plus(In(Digits \cup {","})), Opt(In({"."})), Star(In(Digits)), Plus(In(WS))>>
    \o Lit(<<Rupee>>)
    \o <<Open(1), Plus(In(Digits \cup {","})), Opt(In({"."})), Star(In(Digits)), Close(1)>>
\* line 191: Shipping\s+Charges\s+₹([\d,]+\.?\d*)
shipping_charges_pattern ==
    Lit(<<"S","h","i","p","p","i","n","g">>) \o <<Plus(In(WS))>>
    \o Lit(<<"C","h","a","r","g","e","s">>) \o <<Plus(In(WS))>> \o Lit(<<Rupee>>)
    \o <<Open(1), Plus(In(Digits \cup {","})), Opt(In({"."})), Star(In(Digits)), Close(1)>>
\* line 197: TOTAL[:\s]*₹([\d,]+\.?\d*)
grand_total_pattern_1 ==
    Lit(<<"T","O","T","A","L">>) \o <<Star(In(WS \cup {":"}))>> \o Lit(<<Rupee>>)
    \o <<Open(1), Plus(In(Digits \cup {","})), Opt(In({"."})), Star(In(Digits)), Close(1)>>
\* line 198: Invoice\s*Value[:\s]*₹?([\d,]+\.?\d*)
grand_total_pattern_2 ==
    Lit(<<"I","n","v","o","i","c","e">>) \o <<Star(In(WS))>>
    \o Lit(<<"V","a","l","u","e">>)
    \o <<Star(In(WS \cup {":"})), Opt(In({Rupee})), Open(1), Plus(In(Digits \cup {","})),
         Opt(In({"."})), Star(In(Digits)), Close(1)>>
\* line 199: Grand\s*Total[:\s]*₹([\d,]+\.?\d*)
grand_total_pattern_3 ==
    Lit(<<"G","r","a","n","d">>) \o <<Star(In(WS))>> \o Lit(<<"T","o","t","a","l">>)
    \o <<Star(In(WS \cup {":"}))>> \o Lit(<<Rupee>>)
    \o <<Open(1), Plus(In(Digits \cup {","})), Opt(In({"."})), Star(In(Digits)), Close(1)>>
\* line 208: Mode\s*of\s*Payment[:\s]*([^\n]+)
payment_pattern ==
    Lit(<<"M","o","d","e">>) \o <<Star(In(WS))>> \o Lit(<<"o","f">>) \o <<Star(In(WS))>>
    \o Lit(<<"P","a","y","m","e","n","t">>)
    \o <<Star(In(WS \cup {":"})), Open(1), Plus(NotIn({"\n"})), Close(1)>>
\* line 213: Sold\s*By[:\s]*([^\n*]+)
seller_pattern ==
    Lit(<<"S","o","l","d">>) \o <<Star(In(WS))>> \o Lit(<<"B","y">>)
    \o <<Star(In(WS \cup {":"})), Open(1), Plus(NotIn({"\n", "*"})), Close(1)>>
\* line 217: \*.*$
seller_tail_pattern ==
    Lit(<<"*">>) \o <<Star(NotIn({"\n"})), Eos>>
\* line 221: GST\s*Registration\s*No[:\s]*([A-Z0-9]+)
gst_pattern ==
    Lit(<<"G","S","T">>) \o <<Star(In(WS))>>
    \o Lit(<<"R","e","g","i","s","t","r","a","t","i","o","n">>) \o <<Star(In(WS))>>
    \o Lit(<<"N","o">>)
    \o <<Star(In(WS \cup {":"})), Open(1), Plus(In(UpperLetters \cup Digits)), Close(1)>>
\* line 226: Billing\s*Address[:\s]*([^:]+?)(?=Shipping\s*Address|State/UT|$)   (re.DOTALL)
billing_pattern ==
    Lit(<<"B","i","l","l","i","n","g">>) \o <<Star(In(WS))>>
    \o Lit(<<"A","d","d","r","e","s","s">>)
    \o <<Star(In(WS \cup {":"})), Open(1), Lazy(Plus(NotIn({":"}))), Close(1),
         Look(<<Lit(<<"S","h","i","p","p","i","n","g">>) \o <<Star(In(WS))>> \o Lit(<<"A","d","d","r","e","s","s">>), Lit(<<"S","t","a","t","e","/","U","T">>), <<Eos>>>>)>>
\* line 233: Shipping\s*Address[:\s]*([^:]+?)(?=Place\s*of|State/UT|$)   (re.DOTALL)
shipping_pattern ==
    Lit(<<"S","h","i","p","p","i","n","g">>) \o <<Star(In(WS))>>
    \o Lit(<<"A","d","d","r","e","s","s">>)
    \o <<Star(In(WS \cup {":"})), Open(1), Lazy(Plus(NotIn({":"}))), Close(1),
         Look(<<Lit(<<"P","l","a","c","e">>) \o <<Star(In(WS))>> \o Lit(<<"o","f">>),
         Lit(<<"S","t","a","t","e","/","U","T">>), <<Eos>>>>)>>
\* the list of lines 100-104 with its patterns in the opposite order
order_patterns_reversed == <<order_pattern_3, order_pattern_2, order_pattern_1>>
order_patterns == <<order_pattern_1, order_pattern_2, order_pattern_3>>
grand_total_patterns == <<grand_total_pattern_1, grand_total_pattern_2, grand_total_pattern_3>>

(***************************************************************************)
(* InvoiceProcessor.extract_amazon_invoice: the rules, in the order of the *)
(* try block                                                               *)
(***************************************************************************)
am_order_number(data, text) ==
    Bind(FirstMatch(order_patterns, text, TRUE, 1), LAMBDA match :
    IF match.ok THEN Put(data, "Order Number", Strip(Group(text, match, 1))) ELSE data)

am_invoice_number(data, text) ==
    Bind(Search(invoice_number_pattern, text, TRUE), LAMBDA invoice_match :
    IF invoice_match.ok
    THEN Put(data, "Invoice Number", Strip(Group(text, invoice_match, 1)))
    ELSE data)

am_order_date(data, text) ==
    Bind(Search(order_date_pattern, text, TRUE), LAMBDA order_date_match :
    IF order_date_match.ok
    THEN Put(data, "Order Date", standardize_date(Strip(Group(text, order_date_match, 1))))
    ELSE data)

am_invoice_date(data, text) ==
    Bind(Search(invoice_date_pattern, text, TRUE), LAMBDA invoice_date_match :
    IF invoice_date_match.ok
    THEN Put(data, "Invoice Date",
             standardize_date(Strip(Group(text, invoice_date_match, 1))))
    ELSE data)

aggregate_keywords ==
    << <<"t","o","t","a","l">>, <<"a","m","o","u","n","t">>, <<"t","a","x">>, <<"g","s","t">> >>

\* the while loop of lines 138-146; i, j index lines from 0 as in the code
RECURSIVE product_continuation(_, _, _, _)
product_continuation(lines, i, j, product_parts) ==
    IF j < Len(lines) /\ j < i + 5
    THEN Bind(Strip(lines[j + 1]), LAMBDA next_line :
         IF next_line # <<>> /\ ~Match(section_header_pattern, 1, next_line, 0, NoCaps, FALSE).ok
         THEN IF ~\E k \in DOMAIN aggregate_keywords :
                     Contains(aggregate_keywords[k], Lower(next_line))
              THEN product_continuation(lines, i, j + 1, Append(product_parts, next_line))
              ELSE product_continuation(lines, i, j + 1, product_parts)
         ELSE product_parts)
    ELSE product_parts

\* lines 133-152: the product name that starts at line i of lines
product_from(data, lines, i) ==
    Bind(Sub(item_line_pattern, <<>>, lines[i + 1], FALSE), LAMBDA product_line :
    Bind(product_continuation(lines, i, i + 1, <<product_line>>), LAMBDA product_parts :
    Bind(Sub(price_tail_pattern, <<>>, Join(product_parts, <<" ">>), FALSE),
         LAMBDA full_product :
    Put(data, "Product Name", Slice(Strip(full_product), 0, 200)))))

\* lines 129-153: the first line that the item pattern finds
am_product_name(data, text) ==
    Bind(Split(text, "\n"), LAMBDA lines :
    Bind({i \in 0..(Len(lines) - 1) : Search(item_line_pattern, lines[i + 1], FALSE).ok},
         LAMBDA hits :
    IF hits = {} THEN data ELSE product_from(data, lines, Min(hits))))

\* line 158 with a mistyped key: the dict gets a 22nd key
am_hsn_code_mistyped(data, text) ==
    Bind(Search(hsn_pattern, text, TRUE), LAMBDA hsn_match :
    IF hsn_match.ok THEN Put(data, "HSN", Strip(Group(text, hsn_match, 1))) ELSE data)

am_hsn_code(data, text) ==
    Bind(Search(hsn_pattern, text, TRUE), LAMBDA hsn_match :
    IF hsn_match.ok THEN Put(data, "HSN Code", Strip(Group(text, hsn_match, 1))) ELSE data)

am_unit_price(data, text) ==
    Bind(Search(unit_price_pattern, text, FALSE), LAMBDA unit_price_match :
    IF unit_price_match.ok
    THEN Put(data, "Unit Price", clean_currency(Group(text, unit_price_match, 1)))
    ELSE data)

am_quantity(data, text) ==
    Bind(Search(qty_pattern, text, FALSE), LAMBDA qty_match :
    IF qty_match.ok THEN Put(data, "Quantity", Group(text, qty_match, 1)) ELSE data)

am_net_amount(data, text) ==
    Bind(Search(net_amount_pattern, text, FALSE), LAMBDA net_amount_match :
    IF net_amount_match.ok
    THEN Put(data, "Net Amount", clean_currency(Group(text, net_amount_match, 1)))
    ELSE data)

am_tax_rate(data, text) ==
    Bind(Search(tax_rate_pattern, text, FALSE), LAMBDA tax_rate_match :
    IF tax_rate_match.ok
    THEN Put(data, "Tax Rate", Group(text, tax_rate_match, 1) \o <<"%">>)
    ELSE data)

am_tax_amount(data, text) ==
    Bind(Search(tax_amount_pattern, text, FALSE), LAMBDA tax_amount_match :
    IF tax_amount_match.ok
    THEN Put(data, "Tax Amount", clean_currency(Group(text, tax_amount_match, 1)))
    ELSE data)

am_total_amount(data, text) ==
    Bind(Search(total_amount_pattern, text, FALSE), LAMBDA total_amount_match :
    IF total_amount_match.ok
    THEN Put(data, "Total Amount", clean_currency(Group(text, total_amount_match, 1)))
    ELSE data)

am_shipping_charges(data, text) ==
    Bind(Search(shipping_charges_pattern, text, TRUE), LAMBDA shipping_match :
    IF shipping_match.ok
    THEN Put(data, "Shipping Charges", clean_currency(Group(text, shipping_match, 1)))
    ELSE data)

am_grand_total(data, text) ==
    Bind(FirstMatch(grand_total_patterns, text, TRUE, 1), LAMBDA match :
    IF match.ok THEN Put(data, "Grand Total", clean_currency(Group(text, match, 1)))
    ELSE data)

am_payment_mode(data, text) ==
    Bind(Search(payment_pattern, text, TRUE), LAMBDA payment_match :
    IF payment_match.ok
    THEN Put(data, "Payment Mode", Strip(Group(text, payment_match, 1)))
    ELSE data)

am_seller_name(data, text) ==
    Bind(Search(seller_pattern, text, TRUE), LAMBDA seller_match :
    IF seller_match.ok
    THEN Put(data, "Seller Name",
             Slice(Strip(Sub(seller_tail_pattern, <<>>,
                             Strip(Group(text, seller_match, 1)), FALSE)), 0, 100))
    ELSE data)

am_seller_gst(data, text) ==
    Bind(Search(gst_pattern, text, TRUE), LAMBDA gst_match :
    IF gst_match.ok THEN Put(data, "Seller GST", Strip(Group(text, gst_match, 1))) ELSE data)

\* lines 228-230 and 235-237: strip, collapse whitespace runs, cut
address_value(captured) ==
    Slice(SubRuns(In(WS), " ", Strip(captured)), 0, 150)

am_billing_address(data, text) ==
    Bind(Search(billing_pattern, text, TRUE), LAMBDA billing_match :
    IF billing_match.ok
    THEN Put(data, "Billing Address", address_value(Group(text, billing_match, 1)))
    ELSE data)

am_shipping_address(data, text) ==
    Bind(Search(shipping_pattern, text, TRUE), LAMBDA shipping_match :
    IF shipping_match.ok
    THEN Put(data, "Shipping Address", address_value(Group(text, shipping_match, 1)))
    ELSE data)

\* the statements of the try block, lines 99-237, numbered in order
AmazonRuleCount == 19
amazon_rule(k, data, text) ==
    CASE k = 1 -> am_order_number(data, text)
      [] k = 2 -> am_invoice_number(data, text)
      [] k = 3 -> am_order_date(data, text)
      [] k = 4 -> am_invoice_date(data, text)
      [] k = 5 -> am_product_name(data, text)
      [] k = 6 -> am_hsn_code(data, text)
      [] k = 7 -> am_unit_price(data, text)
      [] k = 8 -> am_quantity(data, text)
      [] k = 9 -> am_net_amount(data, text)
      [] k = 10 -> am_tax_rate(data, text)
      [] k = 11 -> am_tax_amount(data, text)
      [] k = 12 -> am_total_amount(data, text)
      [] k = 13 -> am_shipping_charges(data, text)
      [] k = 14 -> am_grand_total(data, text)
      [] k = 15 -> am_payment_mode(data, text)
      [] k = 16 -> am_seller_name(data, text)
      [] k = 17 -> am_seller_gst(data, text)
      [] k = 18 -> am_billing_address(data, text)
      [] k = 19 -> am_shipping_address(data, text)

\* rules k.. applied in order
RECURSIVE amazon_rules_from(_, _, _)
amazon_rules_from(k, data, text) ==
    IF k > AmazonRuleCount THEN data
    ELSE amazon_rules_from(k + 1, amazon_rule(k, data, text), text)

\* extract_amazon_invoice when no rule raises
extract_amazon_invoice(text, filename) ==
    amazon_rules_from(1, default_record(filename, str_Amazon), text)

(***************************************************************************)
(* InvoiceProcessor.extract_flipkart_invoice: the patterns                 *)
(***************************************************************************)
\* line 273: Order\s*(?:ID|Number)[:\s]*([A-Z0-9]+)
fk_order_pattern ==
    Lit(<<"O","r","d","e","r">>)
    \o <<Star(In(WS)), Alt(<<Lit(<<"I","D">>), Lit(<<"N","u","m","b","e","r">>)>>),
         Star(In(WS \cup {":"})), Open(1), Plus(In(UpperLetters \cup Digits)), Close(1)>>
\* line 279: Invoice\s*(?:Number|No)[:\s#]*([A-Z0-9]+)
fk_invoice_pattern_1 ==
    Lit(<<"I","n","v","o","i","c","e">>) \o <<Star(In(WS))>>
    \o <<Alt(<<Lit(<<"N","u","m","b","e","r">>), Lit(<<"N","o">>)>>), Star(In(WS \cup {":",
         "#"})), Open(1), Plus(In(UpperLetters \cup Digits)), Close(1)>>
\* line 280: #\s*([A-Z0-9]{10,})
fk_invoice_pattern_2 ==
    Lit(<<"#">>)
    \o <<Star(In(WS)), Open(1), AtLeast(In(UpperLetters \cup Digits), 10), Close(1)>>
\* line 289: Order\s*Date[:\s]*([0-9.\-/]+)
fk_order_date_pattern ==
    Lit(<<"O","r","d","e","r">>) \o <<Star(In(WS))>> \o Lit(<<"D","a","t","e">>)
    \o <<Star(In(WS \cup {":"})), Open(1), Plus(In(Digits \cup {".", "-", "/"})), Close(1)>>
\* line 293: Invoice\s*Date[:\s]*([0-9.\-/]+)
fk_invoice_date_pattern ==
    Lit(<<"I","n","v","o","i","c","e">>) \o <<Star(In(WS))>> \o Lit(<<"D","a","t","e">>)
    \o <<Star(In(WS \cup {":"})), Open(1), Plus(In(Digits \cup {".", "-", "/"})), Close(1)>>
\* line 299: Product\s*Description\s+Qty.*?\n([^\n]+)   (re.DOTALL)
fk_product_pattern_1 ==
    Lit(<<"P","r","o","d","u","c","t">>) \o <<Star(In(WS))>>
    \o Lit(<<"D","e","s","c","r","i","p","t","i","o","n">>) \o <<Plus(In(WS))>>
    \o Lit(<<"Q","t","y">>) \o <<Lazy(Star(NotIn({})))>> \o Lit(<<"\n">>)
    \o <<Open(1), Plus(NotIn({"\n"})), Close(1)>>
\* line 300: Description\s+Qty.*?\n([^\n]+)   (re.DOTALL)
fk_product_pattern_2 ==
    Lit(<<"D","e","s","c","r","i","p","t","i","o","n">>) \o <<Plus(In(WS))>>
    \o Lit(<<"Q","t","y">>) \o <<Lazy(Star(NotIn({})))>> \o Lit(<<"\n">>)
    \o <<Open(1), Plus(NotIn({"\n"})), Close(1)>>
\* line 301: ([A-Za-z].*?)\s+HSN[:\s]*\d+   (re.DOTALL)
fk_product_pattern_3 ==
    <<Open(1), In(UpperLetters \cup LowerLetters), Lazy(Star(NotIn({}))), Close(1),
         Plus(In(WS))>>
    \o Lit(<<"H","S","N">>) \o <<Star(In(WS \cup {":"})), Plus(In(Digits))>>
\* line 302: Ordered\s*Through.*?\n([^\n]+)   (re.DOTALL)
fk_product_pattern_4 ==
    Lit(<<"O","r","d","e","r","e","d">>) \o <<Star(In(WS))>>
    \o Lit(<<"T","h","r","o","u","g","h">>) \o <<Lazy(Star(NotIn({})))>> \o Lit(<<"\n">>)
    \o <<Open(1), Plus(NotIn({"\n"})), Close(1)>>
\* line 310: \d+\s+[\d,]+\.?\d*.*$
fk_trailing_price_pattern ==
    <<Plus(In(Digits)), Plus(In(WS)), Plus(In(Digits \cup {","})), Opt(In({"."})),
         Star(In(Digits)), Star(NotIn({"\n"})), Eos>>
\* line 311: ^\d+\s+
fk_leading_number_pattern ==
    <<Bos, Plus(In(Digits)), Plus(In(WS))>>
\* line 317: HSN[:\s]*(\d+)
fk_hsn_pattern ==
    Lit(<<"H","S","N">>)
    \o <<Star(In(WS \cup {":"})), Open(1), Plus(In(Digits)), Close(1)>>
\* line 322: Qty\s+(\d+)
fk_qty_pattern ==
    Lit(<<"Q","t","y">>) \o <<Plus(In(WS)), Open(1), Plus(In(Digits)), Close(1)>>
\* line 328: Gross\s*Amount[^₹]*₹?\s*([\d,]+\.?\d*)
fk_gross_amount_pattern ==
    Lit(<<"G","r","o","s","s">>) \o <<Star(In(WS))>> \o Lit(<<"A","m","o","u","n","t">>)
    \o <<Star(NotIn({Rupee})), Opt(In({Rupee})), Star(In(WS)), Open(1),
         Plus(In(Digits \cup {","})), Opt(In({"."})), Star(In(Digits)), Close(1)>>
\* line 333: Taxable\s*[Vv]alue[^₹]*₹?\s*([\d,]+\.?\d*)
fk_taxable_pattern ==
    Lit(<<"T","a","x","a","b","l","e">>) \o <<Star(In(WS)), In({"V", "v"})>>
    \o Lit(<<"a","l","u","e">>)
    \o <<Star(NotIn({Rupee})), Opt(In({Rupee})), Star(In(WS)), Open(1),
         Plus(In(Digits \cup {","})), Opt(In({"."})), Star(In(Digits)), Close(1)>>
\* line 338: (\d+\.?\d*)%\s*IGST
fk_tax_rate_pattern ==
    <<Open(1), Plus(In(Digits)), Opt(In({"."})), Star(In(Digits)), Close(1)>>
    \o Lit(<<"%">>) \o <<Star(In(WS))>> \o Lit(<<"I","G","S","T">>)
\* line 342: IGST[^₹]*₹?\s*([\d,]+\.?\d*)
fk_tax_amount_pattern ==
    Lit(<<"I","G","S","T">>)
    \o <<Star(NotIn({Rupee})), Opt(In({Rupee})), Star(In(WS)), Open(1),
         Plus(In(Digits \cup {","})), Opt(In({"."})), Star(In(Digits)), Close(1)>>
\* line 348: Total[^₹]*₹?\s*([\d,]+\.?\d*)
fk_total_pattern_1 ==
    Lit(<<"T","o","t","a","l">>)
    \o <<Star(NotIn({Rupee})), Opt(In({Rupee})), Star(In(WS)), Open(1),
         Plus(In(Digits \cup {","})), Opt(In({"."})), Star(In(Digits)), Close(1)>>
\* line 349: Grand\s*Total[^₹]*₹?\s*([\d,]+\.?\d*)
fk_total_pattern_2 ==
    Lit(<<"G","r","a","n","d">>) \o <<Star(In(WS))>> \o Lit(<<"T","o","t","a","l">>)
    \o <<Star(NotIn({Rupee})), Opt(In({Rupee})), Star(In(WS)), Open(1),
         Plus(In(Digits \cup {","})), Opt(In({"."})), Star(In(Digits)), Close(1)>>
\* line 359: Shipping\s*(?:and\s*)?(?:Handling\s*)?Charges[^₹]*₹?\s*([\d,]+\.?\d*)
fk_shipping_pattern_1 ==
    Lit(<<"S","h","i","p","p","i","n","g">>)
    \o <<Star(In(WS)), Alt(<<Lit(<<"a","n","d">>) \o <<Star(In(WS))>>, <<>>>>),
         Alt(<<Lit(<<"H","a","n","d","l","i","n","g">>) \o <<Star(In(WS))>>, <<>>>>)>>
    \o Lit(<<"C","h","a","r","g","e","s">>)
    \o <<Star(NotIn({Rupee})), Opt(In({Rupee})), Star(In(WS)), Open(1),
         Plus(In(Digits \cup {","})), Opt(In({"."})), Star(In(Digits)), Close(1)>>
\* line 360: Delivery\s*Charges[^₹]*₹?\s*([\d,]+\.?\d*)
fk_shipping_pattern_2 ==
    Lit(<<"D","e","l","i","v","e","r","y">>) \o <<Star(In(WS))>>
    \o Lit(<<"C","h","a","r","g","e","s">>)
    \o <<Star(NotIn({Rupee})), Opt(In({Rupee})), Star(In(WS)), Open(1),
         Plus(In(Digits \cup {","})), Opt(In({"."})), Star(In(Digits)), Close(1)>>
\* line 369: Sold\s*By[:\s]*([^,\n]+)
fk_seller_pattern ==
    Lit(<<"S","o","l","d">>) \o <<Star(In(WS))>> \o Lit(<<"B","y">>)
    \o <<Star(In(WS \cup {":"})), Open(1), Plus(NotIn({",", "\n"})), Close(1)>>
\* line 375: GSTIN[:\s-]*([A-Z0-9]{15})
fk_gst_pattern_1 ==
    Lit(<<"G","S","T","I","N">>)
    \o <<Star(In(WS \cup {":", "-"})), Open(1), Times(In(UpperLetters \cup Digits), 15),
         Close(1)>>
\* line 376: GST[:\s]*([A-Z0-9]{15})
fk_gst_pattern_2 ==
    Lit(<<"G","S","T">>)
    \o <<Star(In(WS \cup {":"})), Open(1), Times(In(UpperLetters \cup Digits), 15),
         Close(1)>>
\* line 385: Bill\s*To\s*([^:]+?)(?=Ship\s*To|Order\s*ID|$)   (re.DOTALL)
fk_billing_pattern ==
    Lit(<<"B","i","l","l">>) \o <<Star(In(WS))>> \o Lit(<<"T","o">>)
    \o <<Star(In(WS)), Open(1), Lazy(Plus(NotIn({":"}))), Close(1),
         Look(<<Lit(<<"S","h","i","p">>) \o <<Star(In(WS))>> \o Lit(<<"T","o">>),
         Lit(<<"O","r","d","e","r">>) \o <<Star(In(WS))>> \o Lit(<<"I","D">>), <<Eos>>>>)>>
\* line 391: Ship\s*To\s*([^:]+?)(?=Bill\s*To|Order\s*ID|$)   (re.DOTALL)
fk_shipping_pattern ==
    Lit(<<"S","h","i","p">>) \o <<Star(In(WS))>> \o Lit(<<"T","o">>)
    \o <<Star(In(WS)), Open(1), Lazy(Plus(NotIn({":"}))), Close(1),
         Look(<<Lit(<<"B","i","l","l">>) \o <<Star(In(WS))>> \o Lit(<<"T","o">>),
         Lit(<<"O","r","d","e","r">>) \o <<Star(In(WS))>> \o Lit(<<"I","D">>), <<Eos>>>>)>>
fk_invoice_patterns == <<fk_invoice_pattern_1, fk_invoice_pattern_2>>
fk_product_patterns ==
    <<fk_product_pattern_1, fk_product_pattern_2, fk_product_pattern_3, fk_product_pattern_4>>
fk_total_patterns == <<fk_total_pattern_1, fk_total_pattern_2>>
fk_shipping_patterns == <<fk_shipping_pattern_1, fk_shipping_pattern_2>>
fk_gst_patterns == <<fk_gst_pattern_1, fk_gst_pattern_2>>

(***************************************************************************)
(* InvoiceProcessor.extract_flipkart_invoice: the rules, in the order of   *)
(* the try block                                                           *)
(***************************************************************************)
fk_order_number(data, text) ==
    Bind(Search(fk_order_pattern, text, TRUE), LAMBDA order_match :
    IF order_match.ok THEN Put(data, "Order Number", Strip(Group(text, order_match, 1)))
    ELSE data)

fk_invoice_number(data, text) ==
    Bind(FirstMatch(fk_invoice_patterns, text, TRUE, 1), LAMBDA match :
    IF match.ok THEN Put(data, "Invoice Number", Strip(Group(text, match, 1))) ELSE data)

fk_order_date(data, text) ==
    Bind(Search(fk_order_date_pattern, text, TRUE), LAMBDA order_date_match :
    IF order_date_match.ok
    THEN Put(data, "Order Date", standardize_date(Strip(Group(text, order_date_match, 1))))
    ELSE data)

fk_invoice_date(data, text) ==
    Bind(Search(fk_invoice_date_pattern, text, TRUE), LAMBDA invoice_date_match :
    IF invoice_date_match.ok
    THEN Put(data, "Invoice Date",
             standardize_date(Strip(Group(text, invoice_date_match, 1))))
    ELSE data)

\* the loop of lines 305-314: the first pattern whose cleaned capture is longer than 10
RECURSIVE fk_product_loop(_, _, _)
fk_product_loop(data, text, i) ==
    IF i > Len(fk_product_patterns) THEN data
    ELSE Bind(Search(fk_product_patterns[i], text, TRUE), LAMBDA match :
         IF match.ok
         THEN Bind(Sub(fk_leading_number_pattern, <<>>,
                       Sub(fk_trailing_price_pattern, <<>>,
                           Strip(Group(text, match, 1)), FALSE), FALSE),
                   LAMBDA product_name :
                   IF Len(product_name) > 10
                   THEN Put(data, "Product Name", Slice(product_name, 0, 200))
                   ELSE fk_product_loop(data, text, i + 1))
         ELSE fk_product_loop(data, text, i + 1))

fk_product_name(data, text) == fk_product_loop(data, text, 1)

fk_hsn_code(data, text) ==
    Bind(Search(fk_hsn_pattern, text, TRUE), LAMBDA hsn_match :
    IF hsn_match.ok THEN Put(data, "HSN Code", Strip(Group(text, hsn_match, 1))) ELSE data)

fk_quantity(data, text) ==
    Bind(Search(fk_qty_pattern, text, TRUE), LAMBDA qty_match :
    IF qty_match.ok THEN Put(data, "Quantity", Group(text, qty_match, 1)) ELSE data)

fk_unit_price(data, text) ==
    Bind(Search(fk_gross_amount_pattern, text, TRUE), LAMBDA gross_amount_match :
    IF gross_amount_match.ok
    THEN Put(data, "Unit Price", clean_currency(Group(text, gross_amount_match, 1)))
    ELSE data)

fk_net_amount(data, text) ==
    Bind(Search(fk_taxable_pattern, text, TRUE), LAMBDA taxable_match :
    IF taxable_match.ok
    THEN Put(data, "Net Amount", clean_currency(Group(text, taxable_match, 1)))
    ELSE data)

fk_tax_rate(data, text) ==
    Bind(Search(fk_tax_rate_pattern, text, FALSE), LAMBDA tax_rate_match :
    IF tax_rate_match.ok
    THEN Put(data, "Tax Rate", Group(text, tax_rate_match, 1) \o <<"%">>)
    ELSE data)

fk_tax_amount(data, text) ==
    Bind(Search(fk_tax_amount_pattern, text, TRUE), LAMBDA tax_amount_match :
    IF tax_amount_match.ok
    THEN Put(data, "Tax Amount", clean_currency(Group(text, tax_amount_match, 1)))
    ELSE data)

fk_grand_total(data, text) ==
    Bind(FirstMatch(fk_total_patterns, text, TRUE, 1), LAMBDA match :
    IF match.ok THEN Put(data, "Grand Total", clean_currency(Group(text, match, 1)))
    ELSE data)

\* the loop of lines 362-366: a match of "0.00" does not break the loop
RECURSIVE fk_shipping_loop(_, _, _)
fk_shipping_loop(data, text, i) ==
    IF i > Len(fk_shipping_patterns) THEN data
    ELSE Bind(Search(fk_shipping_patterns[i], text, TRUE), LAMBDA match :
         IF match.ok /\ Group(text, match, 1) # Zero
         THEN Put(data, "Shipping Charges", clean_currency(Group(text, match, 1)))
         ELSE fk_shipping_loop(data, text, i + 1))

fk_shipping_charges(data, text) == fk_shipping_loop(data, text, 1)

fk_seller_name(data, text) ==
    Bind(Search(fk_seller_pattern, text, TRUE), LAMBDA seller_match :
    IF seller_match.ok
    THEN Put(data, "Seller Name", Slice(Strip(Group(text, seller_match, 1)), 0, 100))
    ELSE data)

fk_seller_gst(data, text) ==
    Bind(FirstMatch(fk_gst_patterns, text, TRUE, 1), LAMBDA match :
    IF match.ok THEN Put(data, "Seller GST", Strip(Group(text, match, 1))) ELSE data)

fk_billing_address(data, text) ==
    Bind(Search(fk_billing_pattern, text, TRUE), LAMBDA billing_match :
    IF billing_match.ok
    THEN Put(data, "Billing Address", address_value(Group(text, billing_match, 1)))
    ELSE data)

fk_shipping_address(data, text) ==
    Bind(Search(fk_shipping_pattern, text, TRUE), LAMBDA shipping_match :
    IF shipping_match.ok
    THEN Put(data, "Shipping Address", address_value(Group(text, shipping_match, 1)))
    ELSE data)

\* the statements of the try block, lines 272-395, numbered in order
FlipkartRuleCount == 17
flipkart_rule(k, data, text) ==
    CASE k = 1 -> fk_order_number(data, text)
      [] k = 2 -> fk_invoice_number(data, text)
      [] k = 3 -> fk_order_date(data, text)
      [] k = 4 -> fk_invoice_date(data, text)
      [] k = 5 -> fk_product_name(data, text)
      [] k = 6 -> fk_hsn_code(data, text)
      [] k = 7 -> fk_quantity(data, text)
      [] k = 8 -> fk_unit_price(data, text)
      [] k = 9 -> fk_net_amount(data, text)
      [] k = 10 -> fk_tax_rate(data, text)
      [] k = 11 -> fk_tax_amount(data, text)
      [] k = 12 -> fk_grand_total(data, text)
      [] k = 13 -> fk_shipping_charges(data, text)
      [] k = 14 -> fk_seller_name(data, text)
      [] k = 15 -> fk_seller_gst(data, text)
      [] k = 16 -> fk_billing_address(data, text)
      [] k = 17 -> fk_shipping_address(data, text)

RECURSIVE flipkart_rules_from(_, _, _)
flipkart_rules_from(k, data, text) ==
    IF k > FlipkartRuleCount THEN data
    ELSE flipkart_rules_from(k + 1, flipkart_rule(k, data, text), text)

\* extract_flipkart_invoice when no rule raises
extract_flipkart_invoice(text, filename) ==
    flipkart_rules_from(1, default_record(filename, str_Flipkart), text)

(***************************************************************************)
(* The parts of the state a specification leaves alone                     *)
(***************************************************************************)
PureIdle == fn = "none" /\ arg = <<>> /\ ret = NotCalled

ExIdle ==
    /\ ex_fn = "none" /\ ex_text = <<>> /\ ex_filename = <<>>
    /\ ex_pc = "idle" /\ ex_stmt = 0 /\ ex_data = NotCalled /\ ex_error = 0

RunIdle ==
    /\ pc = "idle" /\ listing = <<>> /\ files = <<>> /\ idx = 0
    /\ all_invoices = <<>> /\ processed_files = 0 /\ failed_files = <<>>
    /\ outputs = <<>> /\ exit_code = "running"

(***************************************************************************)
(* Calls of the four static helpers on arguments drawn from bounded sets   *)
(***************************************************************************)
\* every concatenation of at most n members of C
RECURSIVE Words(_, _)
Words(C, n) ==
    IF n = 0 THEN {<<>>}
    ELSE LET W == Words(C, n - 1) IN W \cup {w \o c : w \in W, c \in C}

MaxTextLen == 4
MaxAmountLen == 5
MaxPad == 1
MaxNameChunks == 2

TextChars == {<<" ">>, <<"\n">>, <<"\r">>, <<"\t">>, <<"a">>, <<"b">>}
TextInputs == Words(TextChars, MaxTextLen) \cup {None}

AmountChars == {<<"1">>, <<".">>, <<",">>, <<Rupee>>, <<" ">>}
AmountInputs == Words(AmountChars, MaxAmountLen) \cup {None}

DateParts == {<<"0","1">>, <<"2","0","2","3">>, <<"7">>}
DateSeps == {<<".">>, <<"/">>, <<"-">>}
DatePads == Words({<<"9">>, <<"-">>}, MaxPad)
DateInputs ==
    {pre \o a \o s1 \o b \o s2 \o c \o post :
        pre \in DatePads, a \in DateParts, s1 \in DateSeps, b \in DateParts,
        s2 \in DateSeps, c \in DateParts, post \in DatePads}
    \cup {NA, <<>>, None}

NameChunks == {kw_amazon, <<"A","m","a","Z">>, <<"O","N">>, kw_flipkart,
               <<"F","L","I","P","k","a","r","t">>, kw_asspl}
NameInputs == Words(NameChunks, MaxNameChunks)

call_clean_text ==
    /\ fn = "clean_text" /\ ret = NotCalled
    /\ ret' = clean_text(arg[1])
    /\ UNCHANGED <<fn, arg, exVars, runVars>>

call_clean_currency ==
    /\ fn = "clean_currency" /\ ret = NotCalled
    /\ ret' = clean_currency(arg[1])
    /\ UNCHANGED <<fn, arg, exVars, runVars>>

call_standardize_date ==
    /\ fn = "standardize_date" /\ ret = NotCalled
    /\ ret' = standardize_date(arg[1])
    /\ UNCHANGED <<fn, arg, exVars, runVars>>

call_detect_invoice_type ==
    /\ fn = "detect_invoice_type" /\ ret = NotCalled
    /\ ret' = detect_invoice_type(arg[1], arg[2])
    /\ UNCHANGED <<fn, arg, exVars, runVars>>

InitPure ==
    /\ \/ fn = "clean_text" /\ arg \in {<<t>> : t \in TextInputs}
       \/ fn = "clean_currency" /\ arg \in {<<a>> : a \in AmountInputs}
       \/ fn = "standardize_date" /\ arg \in {<<d>> : d \in DateInputs}
       \/ fn = "detect_invoice_type" /\ arg \in NameInputs \X NameInputs
    /\ ret = NotCalled
    /\ ExIdle /\ RunIdle

NextPure ==
    \/ call_clean_text
    \/ call_clean_currency
    \/ call_standardize_date
    \/ call_detect_invoice_type

SpecPure == InitPure /\ [][NextPure]_vars

(***************************************************************************)
(* One call of extract_amazon_invoice or extract_flipkart_invoice, rule by *)
(* rule.  The try block of lines 98-240 (271-398) catches any exception a  *)
(* rule raises; the record built so far is returned.  With text = None the *)
(* first re.search raises TypeError.                                       *)
(***************************************************************************)
MaxOrderChunks == 2
MaxAddressRepeat == 51

OrderChunks == {<<"O","r","d","e","r"," ","N","u","m","b","e","r",":"," ","1","1","-","2"," ">>,
                <<"o","r","d","e","r"," ","i","d"," ","3"," ">>,
                <<"A","m","a","z","o","n"," ","O","r","d","e","r",":","4","-","5"," ">>,
                <<"H","S","N"," ","8","5"," ">>}
OrderTexts == Words(OrderChunks, MaxOrderChunks)

\* s repeated k times
RECURSIVE Repeat(_, _)
Repeat(s, k) ==
    IF k = 0 THEN <<>>
    ELSE IF k = 1 THEN s
    ELSE LET h == Repeat(s, k \div 2) IN
         IF k % 2 = 0 THEN h \o h ELSE h \o h \o s

AddressHeads == {<<"B","i","l","l","i","n","g"," ","A","d","d","r","e","s","s">>, <<"B","i","l","l"," ","T","o">>}
AddressSeps == {<<":">>, <<" ">>}
AddressUnits == {<<"a","b"," ">>, <<"c"," "," ","d","\n">>}
AddressRepeats == {0, 1, 2}
AddressStops == {<<>>, <<"S","h","i","p","p","i","n","g"," ","A","d","d","r","e","s","s",":"," ","S">>, <<"S","h","i","p"," ","T","o"," ","T"," ","S","t","a","t","e","/","U","T">>}
\* short addresses with every separator and stop marker, and addresses longer
\* than the 150 characters kept
AddressTexts ==
    {head \o sep \o Repeat(unit, k) \o stop :
        head \in AddressHeads, sep \in AddressSeps, unit \in AddressUnits,
        k \in AddressRepeats, stop \in AddressStops}
    \cup {head \o <<" ">> \o Repeat(unit, MaxAddressRepeat) :
             head \in AddressHeads, unit \in AddressUnits}

\* an item row and the lines that follow it: a line of the name, the header
\* of the next section, a line with an aggregate keyword
MaxFollowing == 5
ItemRows == {<<"1"," ","P","e","n">>}
FollowingLines == {<<"r","e","d">>, <<"H","S","N">>, <<"T","a","x">>}
ProductTexts ==
    {Join(<<row>> \o following, <<"\n">>) :
        row \in ItemRows,
        following \in UNION {[1..n -> FollowingLines] : n \in 0..MaxFollowing}}
    \cup {<<"x","\n"," ","1"," "," ","P","e","n","\n","r","e","d","\n","\n","r","e","d">>,
          <<"1"," ","P","e","n","\n","5","%"," ","o","f","f","\n","r","e","d">>}

\* rows of the price columns: unit price, quantity, net amount; a row whose
\* quantity is no number; a row without its net amount
MaxPriceChunks == 2
PriceChunks == {<<Rupee,"1","0"," ","1"," ",Rupee,"2","0"," ">>,
                <<Rupee,"5"," ","2"," ",Rupee,"9"," ">>,
                <<Rupee,"7"," "," ","1","1"," ",Rupee,"1",",","8",".","5"," ">>,
                <<Rupee,"5"," ","x"," ",Rupee,"9"," ">>,
                <<Rupee,"4"," ","1"," ",Rupee,"-"," ">>}
PriceTexts == Words(PriceChunks, MaxPriceChunks)

ExtractTexts == OrderTexts \cup AddressTexts \cup ProductTexts \cup PriceTexts \cup {None}
ExtractNames == {<<"a",".","p","d","f">>}

\* lines 74-96, 247-269: the record with its defaults
ex_call ==
    /\ ex_pc = "call"
    /\ ex_data' = default_record(ex_filename,
                     IF ex_fn = "extract_amazon_invoice" THEN str_Amazon ELSE str_Flipkart)
    /\ ex_pc' = "try" /\ ex_stmt' = 1
    /\ UNCHANGED <<ex_fn, ex_text, ex_filename, ex_error, pureVars, runVars>>

\* after statement ex_stmt of a try block of n statements
ex_step(n) ==
    IF ex_stmt = n THEN ex_pc' = "return" /\ ex_stmt' = ex_stmt
    ELSE ex_pc' = "try" /\ ex_stmt' = ex_stmt + 1

\* one statement of the try block of extract_amazon_invoice
ex_amazon_rule ==
    /\ ex_fn = "extract_amazon_invoice"
    /\ ex_pc = "try"
    /\ ex_text # None
    /\ ex_data' = amazon_rule(ex_stmt, ex_data, ex_text)
    /\ ex_step(AmazonRuleCount)
    /\ UNCHANGED <<ex_fn, ex_text, ex_filename, ex_error, pureVars, runVars>>

\* one statement of the try block of extract_flipkart_invoice
ex_flipkart_rule ==
    /\ ex_fn = "extract_flipkart_invoice"
    /\ ex_pc = "try"
    /\ ex_text # None
    /\ ex_data' = flipkart_rule(ex_stmt, ex_data, ex_text)
    /\ ex_step(FlipkartRuleCount)
    /\ UNCHANGED <<ex_fn, ex_text, ex_filename, ex_error, pureVars, runVars>>

\* lines 239-242, 397-400: statement ex_stmt raises an Exception; data is
\* returned as it is.  For a text that is None the first re.search raises
\* TypeError; for a str the interpreter can raise (MemoryError) in any statement.
ex_except ==
    /\ ex_pc = "try"
    /\ ex_text = None => ex_stmt = 1
    /\ ex_error' = ex_stmt
    /\ ex_pc' = "return"
    /\ UNCHANGED <<ex_fn, ex_text, ex_filename, ex_data, ex_stmt, pureVars, runVars>>

InitExtract ==
    /\ ex_fn \in {"extract_amazon_invoice", "extract_flipkart_invoice"}
    /\ ex_text \in ExtractTexts
    /\ ex_filename \in ExtractNames
    /\ ex_pc = "call" /\ ex_stmt = 0 /\ ex_data = NotCalled /\ ex_error = 0
    /\ PureIdle /\ RunIdle

NextExtract ==
    \/ ex_call
    \/ ex_amazon_rule
    \/ ex_flipkart_rule
    \/ ex_except

SpecExtract == InitExtract /\ [][NextExtract]_vars

(***************************************************************************)
(* process_invoices                                                        *)
(***************************************************************************)
MaxListing == 2

\* The input folder: what os.listdir can return, and what pdfplumber gives for
\* each file.  A page is the str or None that extract_text returns; "raises"
\* is an exception from pdfplumber.
file_amazon == <<"a","m","a","z","o","n","_","1",".","p","d","f">>
file_flipkart == <<"F","K",".","P","D","F">>
file_unknown == <<"i","n","v",".","p","d","f">>
file_scan == <<"s","c","a","n",".","p","d","f">>
file_bad == <<"b","a","d",".","p","d","f">>
file_torn == <<"t","o","r","n",".","p","d","f">>
file_notes == <<"n","o","t","e","s",".","t","x","t">>
file_items == <<"i","t","e","m","s",".","p","d","f">>
file_list == <<"l","i","s","t",".","p","d","f">>
DirEntries == {file_amazon, file_flipkart, file_unknown, file_scan, file_bad,
               file_torn, file_notes, file_items, file_list}

Document(filename) ==
    CASE filename = file_amazon ->
           [open |-> "ok", pages |-> <<<<"S","o","l","d"," ","B","y"," ","f","l","i","p","k","a","r","t","\n","O","r","d","e","r"," ","I","D"," ","3">>,
                                       <<"O","r","d","e","r"," ","N","u","m","b","e","r",":"," ","1","1","-","2">>>>]
      [] filename = file_flipkart ->
           [open |-> "ok", pages |-> <<<<"F","l","i","p","k","a","r","t","\r","\n","B","i","l","l"," ","T","o"," ","K"," "," ","L","\n","O","r","d","e","r"," ","I","D",":"," ","O","D","1">>>>]
      [] filename = file_unknown ->
           [open |-> "ok", pages |-> <<<<"O","r","d","e","r"," ","I","D",":"," ","7","-","7","\n","B","i","l","l","i","n","g"," ","A","d","d","r","e","s","s",":"," ","J"," "," ","D"," ">>, None>>]
      [] filename = file_scan ->
           [open |-> "ok", pages |-> <<None, <<" ","\n">>, <<>>>>]
      [] filename = file_torn ->
           [open |-> "ok", pages |-> <<<<"O","r","d","e","r"," ","I","D"," ","5">>, Raises>>]
      [] filename = file_items ->
           [open |-> "ok", pages |-> <<<<"S","o","l","d"," ","b","y"," ","A","m","a","z","o","n","\n","1"," ","P","e","n","\n","b","l","u","e">>>>]
      [] filename = file_list ->
           [open |-> "ok", pages |-> <<<<" ","1"," "," ","P","e","n","\r","\n","b","l","u","e">>, <<"H","S","N"," ","8">>>>]
      [] OTHER -> [open |-> "raises", pages |-> <<>>]

\* f.lower().endswith(".pdf")
is_pdf(f) == EndsWith(Lower(f), <<".","p","d","f">>)

\* whether lines 450-454 raise for the file; closing the file when the with
\* block is left is taken not to raise
raises(filename) ==
    LET doc == Document(filename) IN
    doc.open = "raises" \/ \E k \in DOMAIN doc.pages : doc.pages[k] = Raises

\* lines 452-459: the page texts that are not None or empty, joined, normalised
document_text(filename) ==
    LET IsText(page_text) == page_text # None /\ page_text # <<>>
        text_parts == SelectSeq(Document(filename).pages, IsText)
    IN  clean_text(Join(text_parts, <<"\n">>))

\* lines 475-479 with the rules of Flipkart as the fallback
extract_for_type_flipkart_fallback(invoice_type, text, filename) ==
    IF invoice_type = type_amazon THEN extract_amazon_invoice(text, filename)
    ELSE IF invoice_type = type_flipkart THEN extract_flipkart_invoice(text, filename)
    ELSE Put(extract_flipkart_invoice(text, filename), "Invoice Source", str_Unknown)

\* lines 469-479
extract_for_type(invoice_type, text, filename) ==
    IF invoice_type = type_amazon THEN extract_amazon_invoice(text, filename)
    ELSE IF invoice_type = type_flipkart THEN extract_flipkart_invoice(text, filename)
    ELSE Put(extract_amazon_invoice(text, filename), "Invoice Source", str_Unknown)

\* lines 459-479 with full_text, not clean_text, handed to the rule set
invoice_data_unnormalised(filename) ==
    LET IsText(page_text) == page_text # None /\ page_text # <<>>
        full_text == Join(SelectSeq(Document(filename).pages, IsText), <<"\n">>)
    IN  extract_for_type(detect_invoice_type(document_text(filename), filename),
                         full_text, filename)

\* lines 459-479: the record of a file that has text
invoice_data(filename) ==
    Bind(document_text(filename), LAMBDA text :
    extract_for_type(detect_invoice_type(text, filename), text, filename))

column_order ==
    <<"File Name", "Invoice Source", "Order Number", "Invoice Number",
      "Order Date", "Invoice Date", "Product Name", "HSN Code",
      "Quantity", "Unit Price", "Net Amount", "Tax Rate", "Tax Amount",
      "Total Amount", "Shipping Charges", "Grand Total", "Payment Mode",
      "Seller Name", "Seller GST", "Billing Address", "Shipping Address">>

\* pd.DataFrame(all_invoices).reindex(columns=column_order): one row per record
data_frame(records) ==
    [k \in 1..Len(records) |->
        [c \in {column_order[j] : j \in DOMAIN column_order} |->
            IF c \in DOMAIN records[k] THEN records[k][c] ELSE NaN]]

\* lines 436-440: the PDF files of the folder; none: return
list_files ==
    /\ pc = "start"
    /\ files' = SelectSeq(listing, is_pdf)
    /\ IF files' = <<>>
       THEN pc' = "done" /\ exit_code' = "exit 0"
       ELSE pc' = "loop" /\ exit_code' = exit_code
    /\ idx' = 1
    /\ UNCHANGED <<listing, all_invoices, processed_files, failed_files, outputs,
                   pureVars, exVars>>

next_file == IF idx = Len(files) THEN "save" ELSE "loop"

\* lines 445-486, one iteration: pdfplumber raises
process_file_error ==
    /\ pc = "loop"
    /\ raises(files[idx])
    /\ failed_files' = Append(failed_files, files[idx])
    /\ idx' = idx + 1 /\ pc' = next_file
    /\ UNCHANGED <<listing, files, all_invoices, processed_files, outputs, exit_code,
                   pureVars, exVars>>

\* lines 461-464 without the append to failed_files
process_file_empty_forgotten ==
    /\ pc = "loop"
    /\ ~raises(files[idx])
    /\ document_text(files[idx]) = <<>>
    /\ idx' = idx + 1 /\ pc' = next_file
    /\ UNCHANGED <<listing, files, all_invoices, processed_files, failed_files, outputs,
                   exit_code, pureVars, exVars>>

\* one iteration: no text is left after normalisation
process_file_empty ==
    /\ pc = "loop"
    /\ ~raises(files[idx])
    /\ document_text(files[idx]) = <<>>
    /\ failed_files' = Append(failed_files, files[idx])
    /\ idx' = idx + 1 /\ pc' = next_file
    /\ UNCHANGED <<listing, files, all_invoices, processed_files, outputs, exit_code,
                   pureVars, exVars>>

\* one iteration: a record is extracted and collected
process_file_record ==
    /\ pc = "loop"
    /\ ~raises(files[idx])
    /\ document_text(files[idx]) # <<>>
    /\ all_invoices' = Append(all_invoices, invoice_data(files[idx]))
    /\ processed_files' = processed_files + 1
    /\ idx' = idx + 1 /\ pc' = next_file
    /\ UNCHANGED <<listing, files, failed_files, outputs, exit_code, pureVars, exVars>>

\* lines 489-550: the records are written to one new file
save_results ==
    /\ pc = "save"
    /\ all_invoices # <<>>
    /\ outputs' = Append(outputs, data_frame(all_invoices))
    /\ pc' = "done" /\ exit_code' = "exit 0"
    /\ UNCHANGED <<listing, files, idx, all_invoices, processed_files, failed_files,
                   pureVars, exVars>>

\* lines 508-523, 555-557: a statement of the with block raises, before the
\* sheet is written or after it (the writer saves when the block is left);
\* sys.exit(1)
save_fails ==
    /\ pc = "save"
    /\ all_invoices # <<>>
    /\ outputs' \in {outputs, Append(outputs, data_frame(all_invoices))}
    /\ pc' = "done" /\ exit_code' = "exit 1"
    /\ UNCHANGED <<listing, files, idx, all_invoices, processed_files, failed_files,
                   pureVars, exVars>>

\* lines 488-553 without the test of line 489: an empty sheet is written
save_nothing_written ==
    /\ pc = "save"
    /\ all_invoices = <<>>
    /\ outputs' = Append(outputs, data_frame(all_invoices))
    /\ pc' = "done" /\ exit_code' = "exit 0"
    /\ UNCHANGED <<listing, files, idx, all_invoices, processed_files, failed_files,
                   pureVars, exVars>>

\* lines 552-553: no record, nothing is written
save_nothing ==
    /\ pc = "save"
    /\ all_invoices = <<>>
    /\ pc' = "done" /\ exit_code' = "exit 0"
    /\ UNCHANGED <<listing, files, idx, all_invoices, processed_files, failed_files,
                   outputs, pureVars, exVars>>

\* the listings: os.listdir names every entry once, in any order
Listings ==
    {l \in UNION {[1..n -> DirEntries] : n \in 0..MaxListing} :
        \A a, b \in DOMAIN l : a # b => l[a] # l[b]}

Init ==
    /\ listing \in Listings
    /\ pc = "start" /\ files = <<>> /\ idx = 0
    /\ all_invoices = <<>> /\ processed_files = 0 /\ failed_files = <<>>
    /\ outputs = <<>> /\ exit_code = "running"
    /\ PureIdle /\ ExIdle

Next ==
    \/ list_files
    \/ process_file_error
    \/ process_file_empty
    \/ process_file_record
    \/ save_results
    \/ save_fails
    \/ save_nothing

Spec == Init /\ [][Next]_vars

(***************************************************************************)
(* Properties of the four static helpers, under SpecPure                   *)
(***************************************************************************)
\* whether the lower-case word occurs in s when case is ignored
HasWord(word, s) ==
    \E i \in 1..(Len(s) - Len(word) + 1) :
        \A j \in 1..Len(word) : LowerChar(s[i + j - 1]) = word[j]

\* the tag the decision order of section 4.3 gives, without the ASSPL marker
TagByOrder(text, filename) ==
    IF HasWord(kw_amazon, filename) THEN type_amazon
    ELSE IF HasWord(kw_flipkart, filename) THEN type_flipkart
    ELSE IF HasWord(kw_amazon, text) THEN type_amazon
    ELSE IF HasWord(kw_flipkart, text) THEN type_flipkart
    ELSE type_unknown

\* C1: detect_invoice_type returns one of amazon, flipkart, unknown, and it is
\* the tag of the first rule that hits in the order: file name has "amazon",
\* file name has "flipkart", text has "amazon", text has "flipkart" (all
\* ignoring case), else unknown; a hit in the file name decides whatever the
\* text holds.
C1_DetectOrder ==
    (fn = "detect_invoice_type" /\ ret # NotCalled) =>
        /\ ret \in {type_amazon, type_flipkart, type_unknown}
        /\ ret = TagByOrder(arg[1], arg[2])
        /\ HasWord(kw_amazon, arg[2]) => ret = type_amazon
        /\ (~HasWord(kw_amazon, arg[2]) /\ HasWord(kw_flipkart, arg[2])) => ret = type_flipkart

\* a file name with amazon, a text with flipkart only: amazon
C1_Witness ==
    /\ fn = "detect_invoice_type" /\ ret = type_amazon
    /\ HasWord(kw_amazon, arg[2])
    /\ HasWord(kw_flipkart, arg[1]) /\ ~HasWord(kw_amazon, arg[1])

\* whether s matches ^\d*\.?\d*$: digits with at most one period
IsAmount(s) ==
    /\ \A i \in DOMAIN s : s[i] \in Digits \cup {"."}
    /\ Cardinality({i \in DOMAIN s : s[i] = "."}) <= 1

\* C5: clean_currency returns, for every input, a string of digits with at
\* most one period (^\d*\.?\d*$), or "0.00" when nothing remains.
C5_CurrencyShape ==
    (fn = "clean_currency" /\ ret # NotCalled) =>
        /\ ret # Raises
        /\ IsAmount(ret)

\* whether characters a..b of s are there and are digits
AreDigits(s, a, b) == b <= Len(s) /\ \A i \in a..b : s[i] \in Digits

\* whether DD<sep>MM<sep>YYYY is at position i of s
DayFirstAt(s, i, sep) ==
    /\ AreDigits(s, i, i + 1) /\ s[i + 2] = sep
    /\ AreDigits(s, i + 3, i + 4) /\ s[i + 5] = sep
    /\ AreDigits(s, i + 6, i + 9)

\* whether YYYY-MM-DD is at position i of s
YearFirstAt(s, i) ==
    /\ AreDigits(s, i, i + 3) /\ s[i + 4] = "-"
    /\ AreDigits(s, i + 5, i + 6) /\ s[i + 7] = "-"
    /\ AreDigits(s, i + 8, i + 9)

\* whether one of the four date patterns occurs in s
HasDate(s) ==
    \E i \in 1..(Len(s) - 9) :
        \/ \E sep \in {".", "/", "-"} : DayFirstAt(s, i, sep)
        \/ YearFirstAt(s, i)

\* whether s is DD/MM/YYYY and nothing else
IsDayFirst(s) == Len(s) = 10 /\ DayFirstAt(s, 1, "/")

\* C6: for every string in which one of the four date patterns occurs,
\* standardize_date returns a string DD/MM/YYYY and standardizing that again
\* returns it unchanged; an input that is DD/MM/YYYY already is returned
\* unchanged.
C6_DateIdempotent ==
    (fn = "standardize_date" /\ ret # NotCalled /\ arg[1] # None) =>
        /\ HasDate(arg[1]) =>
              /\ IsDayFirst(ret)
              /\ standardize_date(ret) = ret
        /\ IsDayFirst(arg[1]) => ret = arg[1]

\* an ISO date comes back with day and year exchanged
C6_Witness ==
    /\ fn = "standardize_date"
    /\ arg[1] = <<"2","0","2","3","-","0","1","-","0","1">>
    /\ ret = <<"0","1","/","0","1","/","2","0","2","3">>

\* s with every whitespace run between two words made one space, and the
\* whitespace before the first and after the last word dropped; done is the
\* part of the result built so far, gap whether whitespace was passed since
RECURSIVE Collapsed(_, _, _)
Collapsed(s, done, gap) ==
    IF s = <<>> THEN done
    ELSE IF Head(s) \in WS THEN Collapsed(Tail(s), done, TRUE)
    ELSE Collapsed(Tail(s),
                   done \o (IF gap /\ done # <<>> THEN <<" ">> ELSE <<>>) \o <<Head(s)>>,
                   FALSE)

\* C7: clean_text returns, for every input, a string without leading or
\* trailing whitespace in which every whitespace run of the input (newlines,
\* carriage returns and tabs included) is one space; None and the empty
\* string give the empty string; nothing is raised.
C7_CleanText ==
    (fn = "clean_text" /\ ret # NotCalled) =>
        /\ ret # Raises
        /\ arg[1] \in {None, <<>>} => ret = <<>>
        /\ ret # <<>> => ret[1] \notin WS /\ ret[Len(ret)] \notin WS
        /\ \A i \in DOMAIN ret : ret[i] \in WS => ret[i] = " " /\ ret[i + 1] \notin WS
        /\ arg[1] # None => ret = Collapsed(arg[1], <<>>, FALSE)

\* a carriage return and a line feed between two words become one space
C7_Witness ==
    /\ fn = "clean_text"
    /\ arg[1] = <<"a", "\r", "\n", "b">>
    /\ ret = <<"a", " ", "b">>

(***************************************************************************)
(* Properties of the extraction functions, under SpecExtract               *)
(***************************************************************************)
\* whether statement k of the try block has been executed
Executed(k) ==
    \/ ex_pc = "try" /\ ex_stmt > k
    \/ ex_pc = "return" /\ (ex_error = 0 \/ ex_error > k)

\* C2: the record of extract_amazon_invoice and extract_flipkart_invoice has
\* the 21 keys of the schema and no other, from its creation to its return,
\* whatever matches, and when a statement raises: then the record as it is,
\* with the defaults where nothing was set, is returned.
C2_RecordKeys ==
    (ex_pc \in {"try", "return"}) =>
        /\ DOMAIN ex_data = Fields
        /\ Cardinality(DOMAIN ex_data) = 21
        /\ ex_data["File Name"] = ex_filename
        /\ ex_data["Invoice Source"] =
              (IF ex_fn = "extract_amazon_invoice" THEN str_Amazon ELSE str_Flipkart)
        /\ (ex_pc = "return" /\ ex_error = 1) =>
              \A f \in Fields \ {"File Name", "Invoice Source"} :
                  ex_data[f] = (IF f = "Quantity" THEN <<"1">>
                                ELSE IF f \in ZeroFields THEN Zero ELSE NA)

\* a statement raised after the order number and the HSN code were set
C2_Witness ==
    /\ ex_pc = "return" /\ ex_error > 6
    /\ DOMAIN ex_data = Fields
    /\ ex_data["Order Number"] # NA /\ ex_data["HSN Code"] # NA
    /\ ex_data["Shipping Address"] = NA

\* whether s has no whitespace at its ends and no two whitespace characters
\* in a row
IsTrimmed(s) ==
    /\ s # <<>> => s[1] \notin WS /\ s[Len(s)] \notin WS
    /\ \A i \in 1..(Len(s) - 1) : ~(s[i] \in WS /\ s[i + 1] \in WS)

\* the number of the statement that sets the billing address
BillingRule == IF ex_fn = "extract_amazon_invoice" THEN 18 ELSE 16

\* C9: when the billing-address rule matches, the Billing Address is trimmed,
\* single-spaced and at most 150 characters long, also when the captured
\* span is longer and is cut.
C9_BillingAddressTrimmed ==
    (ex_pc \in {"try", "return"} /\ Executed(BillingRule)
        /\ ex_data["Billing Address"] # NA) =>
        /\ Len(ex_data["Billing Address"]) <= 150
        /\ IsTrimmed(ex_data["Billing Address"])

\* the capture of a match, stripped
Capture(text, m) == Strip(Group(text, m, 1))

\* C10: the Order Number of extract_amazon_invoice is the capture of the first
\* of the patterns "Order Number", "Order ID", "Amazon Order", in this order,
\* that matches anywhere in the text, wherever the later patterns match; it
\* stays "N/A" when none matches.
C10_OrderNumberFirstMatch ==
    (ex_fn = "extract_amazon_invoice" /\ Executed(1)) =>
        ex_data["Order Number"] =
            (IF Search(order_pattern_1, ex_text, TRUE).ok
             THEN Capture(ex_text, Search(order_pattern_1, ex_text, TRUE))
             ELSE IF Search(order_pattern_2, ex_text, TRUE).ok
             THEN Capture(ex_text, Search(order_pattern_2, ex_text, TRUE))
             ELSE IF Search(order_pattern_3, ex_text, TRUE).ok
             THEN Capture(ex_text, Search(order_pattern_3, ex_text, TRUE))
             ELSE NA)

\* "Order ID" matches earlier in the text than "Order Number", which wins
C10_Witness ==
    /\ ex_fn = "extract_amazon_invoice" /\ ex_pc = "return" /\ ex_error = 0
    /\ ex_text = <<"o","r","d","e","r"," ","i","d"," ","3"," ">>
                 \o <<"O","r","d","e","r"," ","N","u","m","b","e","r",":"," ","1","1","-","2"," ">>
    /\ ex_data["Order Number"] = <<"1","1","-","2">>

\* s without its leading whitespace
RECURSIVE LStrip(_)
LStrip(s) == IF s # <<>> /\ s[1] \in WS THEN LStrip(Tail(s)) ELSE s

\* whether s begins with t
StartsWith(s, t) == Len(s) >= Len(t) /\ SubSeq(s, 1, Len(t)) = t

\* whether the line begins with the item index 1 followed by whitespace
IsItemRow(line) ==
    LET l == LStrip(line) IN Len(l) >= 2 /\ l[1] = "1" /\ l[2] \in WS

\* the item row without its index
ItemText(line) == LStrip(Tail(LStrip(line)))

\* whether the line begins with a percentage
StartsWithPercentage(l) ==
    \E k \in 1..(Len(l) - 1) : l[k + 1] = "%" /\ \A n \in 1..k : l[n] \in Digits

\* whether the line starts a new section of the table or has an aggregate keyword
Disqualifying(line) ==
    LET l == Strip(line) IN
    \/ \E t \in {<<"H","S","N">>, <<Rupee>>, <<"I","G","S","T">>,
                  <<"S","h","i","p","p","i","n","g">>} : StartsWith(l, t)
    \/ StartsWithPercentage(l)
    \/ \E w \in {<<"t","o","t","a","l">>, <<"a","m","o","u","n","t">>, <<"t","a","x">>,
                  <<"g","s","t">>} : Contains(w, Lower(l))

\* the lines of following at the positions of keep, stripped, in their order
RECURSIVE KeptLines(_, _, _)
KeptLines(following, keep, k) ==
    IF k > Len(following) THEN <<>>
    ELSE (IF k \in keep THEN <<Strip(following[k])>> ELSE <<>>)
         \o KeptLines(following, keep, k + 1)

\* the at most 4 lines after line i of lines that come before the first
\* disqualifying one
BeforeDisqualifying(lines, i) ==
    LET last == Min({i + 4, Len(lines)})
        stops == {j \in (i + 1)..last : Disqualifying(lines[j])}
    IN  SubSeq(lines, i + 1, IF stops = {} THEN last ELSE Min(stops) - 1)

\* C11: the Product Name of extract_amazon_invoice starts at the first line that
\* begins with the item index 1 and whitespace; of the at most 4 lines after
\* it only lines before the first disqualifying line (one that starts with
\* HSN, the currency glyph, a percentage, IGST or Shipping, or that has one of
\* total, amount, tax, gst) are appended: the name is the item text joined
\* with some of those lines, and with no line from the disqualifying one on.
C11_StopsAtFirstDisqualifying ==
    (ex_fn = "extract_amazon_invoice" /\ ex_text # None /\ Executed(5)
        /\ ~Contains(<<Rupee>>, ex_text)
        /\ \E i \in DOMAIN Split(ex_text, "\n") : IsItemRow(Split(ex_text, "\n")[i])) =>
        LET lines == Split(ex_text, "\n")
            i == Min({n \in DOMAIN lines : IsItemRow(lines[n])})
            before == BeforeDisqualifying(lines, i)
        IN  \E keep \in SUBSET (1..Len(before)) :
                ex_data["Product Name"] =
                    Slice(Strip(Join(<<ItemText(lines[i])>> \o KeptLines(before, keep, 1),
                                     <<" ">>)), 0, 200)

\* the shape <currency><unit_price> <qty> <currency><net_amount>, its three
\* values captured: ₹([\d,]+\.?\d*)\s+(\d+)\s+₹([\d,]+\.?\d*)
price_shape ==
    Lit(<<Rupee>>)
    \o <<Open(1), Plus(In(Digits \cup {","})), Opt(In({"."})), Star(In(Digits)), Close(1),
         Plus(In(WS)), Open(2), Plus(In(Digits)), Close(2), Plus(In(WS))>>
    \o Lit(<<Rupee>>)
    \o <<Open(3), Plus(In(Digits \cup {","})), Opt(In({"."})), Star(In(Digits)), Close(3)>>

\* the shape read at offset n of text
ShapeAt(text, n) == [Match(price_shape, 1, text, n, NoCaps, FALSE) EXCEPT !.start = n]

\* the offsets of text where the shape occurs
Occurrences(text) == {n \in 0..Len(text) : ShapeAt(text, n).ok}

\* C12: after the price rules of extract_amazon_invoice, when the text has an
\* occurrence of <currency><unit_price> <qty> <currency><net_amount>, whatever
\* the quantity, Unit Price, Quantity and Net Amount are the three values of
\* one and the same occurrence; when it has none, the three keep their
\* defaults "0.00", "1", "0.00".
C12_PriceFromOneOccurrence ==
    (ex_fn = "extract_amazon_invoice" /\ ex_text # None /\ Executed(9)) =>
        IF Occurrences(ex_text) = {}
        THEN /\ ex_data["Unit Price"] = Zero
             /\ ex_data["Quantity"] = <<"1">>
             /\ ex_data["Net Amount"] = Zero
        ELSE \E n \in Occurrences(ex_text) :
                /\ ex_data["Unit Price"] = clean_currency(Group(ex_text, ShapeAt(ex_text, n), 1))
                /\ ex_data["Quantity"] = Group(ex_text, ShapeAt(ex_text, n), 2)
                /\ ex_data["Net Amount"] = clean_currency(Group(ex_text, ShapeAt(ex_text, n), 3))

(***************************************************************************)
(* Properties of process_invoices, under Spec                              *)
(***************************************************************************)
\* how many records, and how many entries of failed_files, file f has
RecordsOf(f) == Cardinality({k \in DOMAIN all_invoices : all_invoices[k]["File Name"] = f})
FailuresOf(f) == Cardinality({k \in DOMAIN failed_files : failed_files[k] = f})

\* whether pdfplumber raises for file f, and whether no page of f has text
\* other than whitespace
Unreadable(f) ==
    \/ Document(f).open = "raises"
    \/ \E k \in DOMAIN Document(f).pages : Document(f).pages[k] = Raises
Blank(f) ==
    \A k \in DOMAIN Document(f).pages :
        \/ Document(f).pages[k] = None
        \/ \A i \in DOMAIN Document(f).pages[k] : Document(f).pages[k][i] \in WS

IsUnknown(f) ==
    /\ ~Unreadable(f) /\ ~Blank(f)
    /\ detect_invoice_type(document_text(f), f) = type_unknown

\* C4: a file with text for which detect_invoice_type returns unknown gets
\* one record and no entry in failed_files; the record has Invoice Source
\* "Unknown" and in every other field what extract_amazon_invoice gives for
\* the same text and file name.
C4_UnknownFallback ==
    pc = "done" =>
        \A i \in DOMAIN files : IsUnknown(files[i]) =>
            /\ RecordsOf(files[i]) = 1 /\ FailuresOf(files[i]) = 0
            /\ \A k \in DOMAIN all_invoices :
                  all_invoices[k]["File Name"] = files[i] =>
                      /\ DOMAIN all_invoices[k] = Fields
                      /\ all_invoices[k]["Invoice Source"] = str_Unknown
                      /\ \A f \in Fields \ {"Invoice Source"} :
                            all_invoices[k][f] =
                                extract_amazon_invoice(document_text(files[i]), files[i])[f]

\* the record of inv.pdf: the order number by the "Order ID" pattern of Amazon
C4_Witness ==
    /\ pc = "done"
    /\ \E k \in DOMAIN all_invoices :
          /\ all_invoices[k]["File Name"] = file_unknown
          /\ all_invoices[k]["Invoice Source"] = str_Unknown
          /\ all_invoices[k]["Order Number"] = <<"7","-","7">>
          /\ all_invoices[k]["Billing Address"] = <<"J"," ","D">>

\* the position of file f in files
PositionOf(f) == CHOOSE i \in DOMAIN files : files[i] = f

\* C8: at most one output file is written, and only when every file found
\* has been processed or recorded as failed; its rows are the records
\* collected, in the order the files were handled; when no PDF file is found
\* or no file gave a record, nothing is written and the exit status is 0.
C8_WrittenOnceAtEnd ==
    /\ Len(outputs) <= 1
    /\ outputs # <<>> =>
          /\ pc = "done" /\ idx = Len(files) + 1
          /\ processed_files + Len(failed_files) = Len(files)
          /\ Len(outputs[1]) = Len(all_invoices)
          /\ \A k \in DOMAIN all_invoices :
                \A c \in Fields : outputs[1][k][c] = all_invoices[k][c]
          /\ \A k \in 1..(Len(outputs[1]) - 1) :
                PositionOf(outputs[1][k]["File Name"])
                    < PositionOf(outputs[1][k + 1]["File Name"])
    /\ (pc = "done" /\ (files = <<>> \/ all_invoices = <<>>)) =>
          outputs = <<>> /\ exit_code = "exit 0"
    /\ pc # "done" => exit_code = "running"

\* one output file with the rows of two files, in the order of the listing
C8_Witness ==
    /\ pc = "done" /\ exit_code = "exit 0"
    /\ files = <<file_flipkart, file_amazon>>
    /\ Len(outputs) = 1 /\ Len(outputs[1]) = 2
    /\ outputs[1][1]["File Name"] = file_flipkart
    /\ outputs[1][2]["File Name"] = file_amazon

\* C13: the text that process_invoices hands to a rule set is the result of
\* clean_text and has no line feed; the product-name rule of the Amazon rule
\* set, also used for an unknown vendor, then sees one line: Product Name is
\* set only when the normalised text begins with "1" and a space, and it is
\* made of the rest of that one line, with no continuation line appended.
C13_OneLineText ==
    \A k \in DOMAIN all_invoices :
        LET record == all_invoices[k]
            text == document_text(record["File Name"])
        IN  /\ ~Contains(<<"\n">>, text)
            /\ (record["Invoice Source"] \in {str_Amazon, str_Unknown}
                    /\ record["Product Name"] # NA) =>
                /\ StartsWith(text, <<"1", " ">>)
                /\ record["Product Name"] =
                      Slice(Strip(Sub(price_tail_pattern, <<>>, ItemText(text), FALSE)),
                            0, 200)

\* two documents of several lines with an item row: in one the row opens the
\* text and the name runs to the end of the text, header line included; in
\* the other the row is the second line and no name is set
C13_Witness ==
    /\ \E k \in DOMAIN all_invoices :
          /\ all_invoices[k]["File Name"] = file_list
          /\ all_invoices[k]["Product Name"] = <<"P","e","n"," ","b","l","u","e"," ","H","S","N"," ","8">>
    /\ \E k \in DOMAIN all_invoices :
          /\ all_invoices[k]["File Name"] = file_items
          /\ all_invoices[k]["Invoice Source"] = str_Amazon
          /\ all_invoices[k]["Product Name"] = NA

====
